---- MODULE Spec2Model ----
(***************************************************************************)
(* LDAPAuthenticator (ldapauthenticator/ldapauthenticator.py).             *)
(*                                                                         *)
(* Two entry points are modelled:                                          *)
(*   authenticate(handler, data)   - lines 87-125                          *)
(*   pre_spawn_start(user, spawner) - lines 127-140                        *)
(*                                                                         *)
(* Strings are sequences of one-character strings, so that re.match,       *)
(* str.strip, str.format and str.replace are computed character by         *)
(* character.  Python's None is the one-element sequence <<"None">>, which *)
(* no character string equals.                                             *)
(***************************************************************************)
EXTENDS Integers, Sequences, FiniteSets, TLC

VARIABLES
    \* ---- authenticate ----
    allowed_groups,   \* configuration: list of group DNs (line 49)
    dirMembers,       \* the directory: group DN -> set of member DNs
    pc,               \* per attempt: "idle", "bind", "search", "done", "raised"
    username,         \* per attempt: data['username']
    password,         \* per attempt: data['password']
    userdn,           \* per attempt: the local userdn (line 102)
    conn,             \* the ldap3.Connection objects (line 109): state, user, password
    group_idx,        \* per attempt: position of the for loop of line 113
    ops,              \* per attempt: directory operations issued, in order
    log,              \* per attempt: messages passed to self.log
    result,           \* per attempt: the value returned
    \* ---- pre_spawn_start ----
    add_local_user,   \* configuration (line 65)
    add_user_cmd,     \* configuration: the command template (line 70)
    accounts,         \* the OS account database read by pwd.getpwnam
    hookPc,           \* "idle", "sleep", "done", "raised"
    hookUser,         \* user.name
    cmd,              \* the argument list handed to Popen (line 133)
    proc,             \* the child process and the Popen object p
    elapsed,          \* seconds since Popen
    spawned,          \* number of child processes the hook has started
    hookErr           \* the message of the RuntimeError raised, or None

authVars == <<allowed_groups, dirMembers, pc, username, password, userdn, conn,
              group_idx, ops, log, result>>
hookVars == <<add_local_user, add_user_cmd, accounts, hookPc, hookUser, cmd,
              proc, elapsed, spawned, hookErr>>
vars == <<allowed_groups, dirMembers, pc, username, password, userdn, conn,
          group_idx, ops, log, result,
          add_local_user, add_user_cmd, accounts, hookPc, hookUser, cmd,
          proc, elapsed, spawned, hookErr>>

----------------------------------------------------------------------------
(* Strings *)

None == <<"None">>

Lower == {"a","b","c","d","e","f","g","h","i","j","k","l","m",
          "n","o","p","q","r","s","t","u","v","w","x","y","z"}
Digits == {"0","1","2","3","4","5","6","7","8","9"}
Whitespace == {" ", "\t", "\n", "\r", "\f"}

\* s[i..] starts with the string t
StartsAt(s, i, t) ==
    /\ i + Len(t) - 1 <= Len(s)
    /\ \A j \in 1..Len(t) : s[i + j - 1] = t[j]

\* some occurrence of t in s
Contains(s, t) == \E i \in 1..(Len(s) + 1) : StartsAt(s, i, t)

RECURSIVE ReplaceFrom(_, _, _, _)
ReplaceFrom(s, i, old, new) ==
    IF i > Len(s) THEN <<>>
    ELSE IF StartsAt(s, i, old)
         THEN new \o ReplaceFrom(s, i + Len(old), old, new)
         ELSE <<s[i]>> \o ReplaceFrom(s, i + 1, old, new)

\* str.replace(old, new) for a non-empty old: every occurrence, leftmost
\* first, without rescanning the inserted text
StrReplace(s, old, new) == ReplaceFrom(s, 1, old, new)

\* str.format(name=value) on a template whose only braces are {name} fields
StrFormat(template, name, value) ==
    StrReplace(template, <<"{">> \o name \o <<"}">>, value)

RECURSIVE LStrip(_)
LStrip(s) ==
    IF s # <<>> /\ Head(s) \in Whitespace THEN LStrip(Tail(s)) ELSE s

RECURSIVE RStrip(_)
RStrip(s) ==
    IF s # <<>> /\ s[Len(s)] \in Whitespace
    THEN RStrip(SubSeq(s, 1, Len(s) - 1)) ELSE s

\* Strip with the call to strip() left out
Strip_Omitted(s) == s

\* str.strip()
Strip(s) == RStrip(LStrip(s))

----------------------------------------------------------------------------
(* Configuration *)

\* valid_username_regex, r'^[a-z][.a-z0-9_-]*$', as re.match applies it:
\* one character of [a-z], any number of [.a-z0-9_-], and then $, which
\* matches at the end of the string and also just before a newline that is
\* the last character of the string
UsernameClass == Lower \cup Digits \cup {".", "_", "-"}

valid_username_regex(s) ==
    /\ Len(s) >= 1
    /\ s[1] \in Lower
    /\ \E n \in 1..Len(s) :
          /\ \A j \in 2..n : s[j] \in UsernameClass
          /\ \/ n = Len(s)
             \/ n = Len(s) - 1 /\ s[Len(s)] = "\n"

\* bind_dn_template: the example of the spec, uid={username},ou=people,dc=example,dc=org
bind_dn_template ==
    <<"u","i","d","=","{","u","s","e","r","n","a","m","e","}",",",
      "o","u","=","p","e","o","p","l","e",",",
      "d","c","=","e","x","a","m","p","l","e",",","d","c","=","o","r","g">>

\* '(member={userdn})'
member_filter_template ==
    <<"(","m","e","m","b","e","r","=","{","u","s","e","r","d","n","}",")">>

server_address == "ldap.example.org"

----------------------------------------------------------------------------
(* Bounds and inputs *)

NumAttempts == 2
MaxGroups == 2

Attempts == 1..NumAttempts

river == <<"r","i","v","e","r">>

Usernames == { river, river \o <<"\n">>, <<"r","*",")">> }

GoodPassword == <<"p","w">>
Passwords == { None, <<>>, <<" ","\t">>, GoodPassword, <<"n","o">> }

GroupDNs == {"cn=g1", "cn=g2"}

\* every list of at most MaxGroups group DNs
GroupLists == UNION { [1..n -> GroupDNs] : n \in 0..MaxGroups }

\* UserDN with the template used as it is, the placeholder not filled in
UserDN_Unformatted(u) == bind_dn_template

\* line 102: self.bind_dn_template.format(username=username)
UserDN(u) == StrFormat(bind_dn_template, <<"u","s","e","r","n","a","m","e">>, u)

MemberFilter(dn) == StrFormat(member_filter_template, <<"u","s","e","r","d","n">>, dn)

\* the entries of the directory that can bind, with their passwords
DirCreds == { <<UserDN(river), GoodPassword>> }

\* the member attribute of each group entry
Directories == [GroupDNs -> SUBSET {UserDN(river)}]

----------------------------------------------------------------------------
(* The directory server, as ldap3 reports it *)

\* Connection.bind(): True iff the server accepts the simple bind
BindResult(dn, pw) == <<dn, pw>> \in DirCreds

\* Connection.search(group, BASE, '(member=dn)'): True iff the group entry
\* matches the filter, i.e. dn is one of its member values
SearchResult(members, group, filter) ==
    \E dn \in members[group] : filter = MemberFilter(dn)

\* a directory operation: its kind, the connection it is made on, the server
\* or entry it addresses, the identity it carries and its password or filter
Op(kind, via, target, dn, arg) ==
    [op |-> kind, via |-> via, target |-> target, dn |-> dn, arg |-> arg]

\* a name that holds no Connection object
NoConn == [state |-> "none", user |-> None, password |-> None]

\* ConnOf with the Connection kept in one place shared by all calls
ConnOf_Shared(a) == 1

\* line 109: conn is a local variable of the call, a new object in each
ConnOf(a) == a

----------------------------------------------------------------------------
(* authenticate, lines 87-125 *)

AuthInit ==
    /\ allowed_groups \in GroupLists
    /\ dirMembers \in Directories
    /\ pc = [a \in Attempts |-> "idle"]
    /\ username = [a \in Attempts |-> None]
    /\ password = [a \in Attempts |-> None]
    /\ userdn = [a \in Attempts |-> None]
    /\ conn = [a \in Attempts |-> NoConn]
    /\ group_idx = [a \in Attempts |-> 0]
    /\ ops = [a \in Attempts |-> <<>>]
    /\ log = [a \in Attempts |-> <<>>]
    /\ result = [a \in Attempts |-> None]

\* Warn with the credential added to the message
Warn_WithCredential(text, u, p) == [text |-> text, args |-> <<u, p>>]

\* lines 94, 99 and 124, self.log.warn(text): the record logged is the literal
\* text, with no argument formatted into it
Warn(text, u, p) == [text |-> text, args |-> <<>>]

\* return v from attempt a
Return(a, v) ==
    /\ result' = [result EXCEPT ![a] = v]
    /\ pc' = [pc EXCEPT ![a] = "done"]

\* lines 89-109: the two checks, the DN, the Server and Connection objects
\* (neither constructor touches the network)
Authenticate(a, u, p) ==
    /\ pc[a] = "idle"
    /\ username' = [username EXCEPT ![a] = u]
    /\ password' = [password EXCEPT ![a] = p]
    /\ IF ~valid_username_regex(u)
       THEN /\ log' = [log EXCEPT ![a] = Append(@, Warn("Invalid username", u, p))]
            /\ Return(a, None)
            /\ UNCHANGED <<userdn, conn>>
       ELSE IF p = None \/ Strip(p) = <<>>
       THEN /\ log' = [log EXCEPT ![a] = Append(@, Warn("Empty password", u, p))]
            /\ Return(a, None)
            /\ UNCHANGED <<userdn, conn>>
       ELSE /\ userdn' = [userdn EXCEPT ![a] = UserDN(u)]
            /\ conn' = [conn EXCEPT ![ConnOf(a)] =
                            [state |-> "closed", user |-> UserDN(u), password |-> p]]
            /\ pc' = [pc EXCEPT ![a] = "bind"]
            /\ UNCHANGED <<log, result>>
    /\ UNCHANGED <<allowed_groups, dirMembers, group_idx, ops>>
    /\ UNCHANGED hookVars

\* AfterBind with the group loop entered whatever bind() returned
AfterBind_GroupsFirst(bound, groups) ==
    IF groups # <<>> THEN "search"
    ELSE IF bound THEN "accept" ELSE "reject"

\* AfterBind with the test of allowed_groups inverted
AfterBind_EmptyListRejects(bound, groups) ==
    IF bound
    THEN IF groups # <<>> THEN "search" ELSE "reject"
    ELSE "reject"

\* AfterBind with a lockout: once some call has ended in a failed bind, every
\* later bind is treated as failed
AfterBind_Lockout(bound, groups) ==
    IF \E b \in DOMAIN pc : pc[b] = "done" /\ result[b] = <<"None">> /\ ops[b] # <<>>
    THEN "reject"
    ELSE IF bound
         THEN IF groups # <<>> THEN "search" ELSE "accept"
         ELSE "reject"

\* AfterBind with the result of bind() consulted only when there are groups
AfterBind_UncheckedAccept(bound, groups) ==
    IF groups = <<>> THEN "accept"
    ELSE IF bound THEN "search" ELSE "reject"

\* lines 111-125, the branch taken once conn.bind() has returned: the group
\* loop, the username, or None with the 'Invalid password' warning
AfterBind(bound, groups) ==
    IF bound
    THEN IF groups # <<>> THEN "search" ELSE "accept"
    ELSE "reject"

\* AfterSearch with the loop running on after a match
AfterSearch_NoShortCircuit(found, idx, groups) ==
    IF idx < Len(groups) THEN "next"
    ELSE IF found THEN "accept" ELSE "reject"

\* AfterSearch with the username returned when the list is exhausted
AfterSearch_ExhaustedAccepts(found, idx, groups) ==
    IF found THEN "accept"
    ELSE IF idx < Len(groups) THEN "next"
    ELSE "accept"

\* lines 113-120, the branch taken once conn.search() has returned for the
\* group at position idx: return the username, go on with the next group, or
\* fall off the end of the function (None)
AfterSearch(found, idx, groups) ==
    IF found THEN "accept"
    ELSE IF idx < Len(groups) THEN "next"
    ELSE "reject"

\* line 111, conn.bind(): opens the socket, then sends the bind request for
\* the user and password the Connection was built with (line 109).
\* A connection failure raises out of bind(); nothing in authenticate
\* catches it.
Bind(a, net) ==
    /\ pc[a] = "bind"
    /\ IF net = "connect_error"
       THEN /\ ops' = [ops EXCEPT ![a] =
                          Append(@, Op("connect", ConnOf(a), server_address, None, None))]
            /\ pc' = [pc EXCEPT ![a] = "raised"]
            /\ UNCHANGED <<conn, group_idx, log, result>>
       ELSE LET c == ConnOf(a)
                bound == BindResult(conn[c].user, conn[c].password)
                branch == AfterBind(bound, allowed_groups)
            IN /\ ops' = [ops EXCEPT ![a] =
                             @ \o << Op("connect", c, server_address, None, None),
                                     Op("bind", c, server_address,
                                        conn[c].user, conn[c].password) >>]
               /\ conn' = [conn EXCEPT ![c].state = IF bound THEN "bound" ELSE "open"]
               /\ CASE branch = "search" ->
                         /\ group_idx' = [group_idx EXCEPT ![a] = 1]
                         /\ pc' = [pc EXCEPT ![a] = "search"]
                         /\ UNCHANGED <<log, result>>
                    [] branch = "accept" ->
                         /\ Return(a, username[a])
                         /\ UNCHANGED <<group_idx, log>>
                    [] branch = "reject" ->
                         /\ log' = [log EXCEPT ![a] = Append(@, Warn("Invalid password", username[a], password[a]))]
                         /\ Return(a, None)
                         /\ UNCHANGED group_idx
    /\ UNCHANGED <<allowed_groups, dirMembers, username, password, userdn>>
    /\ UNCHANGED hookVars

\* lines 113-120, one iteration of the for loop: conn.search on the next
\* group.  A connection failure raises out of search(); whether ldap3 has
\* closed the socket by then depends on where the failure struck.
Search(a, net) ==
    /\ pc[a] = "search"
    /\ LET group == allowed_groups[group_idx[a]]
           filter == MemberFilter(userdn[a])
           branch == AfterSearch(SearchResult(dirMembers, group, filter),
                                 group_idx[a], allowed_groups)
       IN /\ ops' = [ops EXCEPT ![a] =
                         Append(@, Op("search", ConnOf(a), group, None, filter))]
          /\ IF net = "io_error"
             THEN /\ pc' = [pc EXCEPT ![a] = "raised"]
                  /\ \E st \in {conn[ConnOf(a)].state, "closed"} :
                        conn' = [conn EXCEPT ![ConnOf(a)].state = st]
                  /\ UNCHANGED <<group_idx, result>>
             ELSE CASE branch = "accept" ->
                         /\ Return(a, username[a])
                         /\ UNCHANGED <<group_idx, conn>>
                    [] branch = "next" ->
                         /\ group_idx' = [group_idx EXCEPT ![a] = @ + 1]
                         /\ UNCHANGED <<pc, result, conn>>
                    [] branch = "reject" ->
                         /\ Return(a, None)
                         /\ UNCHANGED <<group_idx, conn>>
    /\ UNCHANGED <<allowed_groups, dirMembers, username, password, userdn, log>>
    /\ UNCHANGED hookVars

\* after the call has ended: authenticate never calls conn.unbind(), so the
\* socket of its Connection stays open until the interpreter's garbage
\* collector finalises the object, at a time of its own choosing
Collect(a) ==
    /\ pc[a] \in {"done", "raised"}
    /\ conn[ConnOf(a)].state \in {"open", "bound"}
    /\ conn' = [conn EXCEPT ![ConnOf(a)].state = "closed"]
    /\ UNCHANGED <<allowed_groups, dirMembers, pc, username, password, userdn,
                   group_idx, ops, log, result>>
    /\ UNCHANGED hookVars

\* lines 113-120 run without interruption from the group at position k on:
\* the value returned and the searches made
RECURSIVE AloneSearch(_, _, _, _, _)
AloneSearch(u, filter, k, groups, members) ==
    IF k > Len(groups) THEN [verdict |-> None, requests |-> <<>>]
    ELSE IF SearchResult(members, groups[k], filter)
    THEN [verdict |-> u, requests |-> << <<"search", groups[k]>> >>]
    ELSE LET rest == AloneSearch(u, filter, k + 1, groups, members)
         IN [rest EXCEPT !.requests = << <<"search", groups[k]>> >> \o @]

\* lines 87-125 run from the call to the return with nothing else running
\* and the directory answering every request: the value returned and the
\* directory requests made, in order
AloneRun(u, p, groups, members) ==
    IF ~valid_username_regex(u) THEN [verdict |-> None, requests |-> <<>>]
    ELSE IF p = None \/ Strip(p) = <<>> THEN [verdict |-> None, requests |-> <<>>]
    ELSE LET dn == UserDN(u)
             opened == << <<"connect", server_address>>, <<"bind", server_address>> >>
         IN IF ~BindResult(dn, p) THEN [verdict |-> None, requests |-> opened]
            ELSE IF groups = <<>> THEN [verdict |-> u, requests |-> opened]
            ELSE LET found == AloneSearch(u, MemberFilter(dn), 1, groups, members)
                 IN [found EXCEPT !.requests = opened \o @]

\* one call of authenticate, given any of the inputs
AuthNext ==
    \/ \E u \in Usernames, p \in Passwords : Authenticate(1, u, p)
    \/ \E net \in {"up", "connect_error"} : Bind(1, net)
    \/ \E net \in {"up", "io_error"} : Search(1, net)
    \/ Collect(1)

\* the credentials that take a call as far as the directory
ConcUsernames == { river }
ConcPasswords == { GoodPassword, <<"n","o">> }

\* several calls of authenticate, their steps interleaved in every way
ConcNext ==
    \/ \E a \in Attempts, u \in ConcUsernames, p \in ConcPasswords :
          Authenticate(a, u, p)
    \/ \E a \in Attempts, net \in {"up", "connect_error"} : Bind(a, net)
    \/ \E a \in Attempts, net \in {"up", "io_error"} : Search(a, net)
    \/ \E a \in Attempts : Collect(a)

----------------------------------------------------------------------------
(* pre_spawn_start, lines 127-140 *)

\* time.sleep(5), line 136
SleepSeconds == 5
\* the clock stops here
MaxTime == 6

USERNAME == <<"U","S","E","R","N","A","M","E">>

adduser == <<"a","d","d","u","s","e","r">>

HookUsers == { river, <<"b","o","b">> }

CmdTemplates ==
    { << adduser, <<"-","q">>, USERNAME >>,
      << adduser, <<"/","h","/">> \o USERNAME, <<"-","q">> >>,
      << adduser, USERNAME \o <<"=">> \o USERNAME >>,
      << adduser >>,
      << >> }

ExitCodes == {0, 1}
Outputs == { <<>>, <<"e","r","r">> }

NoProc == [state |-> "none", status |-> 0, output |-> <<>>, returncode |-> {},
           exited_while |-> "none"]
NoErr == [type |-> "none", name |-> <<>>, output |-> <<>>]

\* BuildCmd without the username appended
BuildCmd_NoAppend(template, name) ==
    [i \in 1..Len(template) |-> StrReplace(template[i], USERNAME, name)]

\* line 133: [arg.replace('USERNAME', name) for arg in self.add_user_cmd] + [name]
BuildCmd(template, name) ==
    [i \in 1..Len(template) |-> StrReplace(template[i], USERNAME, name)] \o <<name>>

\* the truth value of p.returncode: None and 0 are false.  returncode is the
\* empty set for None and {n} once poll(), wait() or communicate() has stored n.
Truthy(returncode) == \E n \in returncode : n # 0

HookInit ==
    /\ add_local_user \in BOOLEAN
    /\ add_user_cmd \in CmdTemplates
    /\ accounts \in SUBSET HookUsers
    /\ hookPc = "idle"
    /\ hookUser = None
    /\ cmd = <<>>
    /\ proc = NoProc
    /\ elapsed = 0
    /\ spawned = 0
    /\ hookErr = NoErr

\* MustCreate with the add_local_user flag not consulted
MustCreate_FlagIgnored(enabled, name, existing) == name \notin existing

\* lines 128-131: the command is built only when add_local_user is set and
\* pwd.getpwnam(name) raises KeyError, i.e. no account has that name
MustCreate(enabled, name, existing) == enabled /\ name \notin existing

\* lines 128-135: the flag, pwd.getpwnam, the argument list and Popen.
\* Popen returns as soon as the child is started, with p.returncode = None;
\* it raises OSError when the command cannot be started.
PreSpawnStart(name, started) ==
    /\ hookPc = "idle"
    /\ hookUser' = name
    /\ IF ~MustCreate(add_local_user, name, accounts)
       THEN /\ hookPc' = "done"
            /\ UNCHANGED <<cmd, proc, spawned, hookErr>>
       ELSE /\ cmd' = BuildCmd(add_user_cmd, name)
            /\ IF started
               THEN /\ proc' = [NoProc EXCEPT !.state = "running"]
                    /\ spawned' = spawned + 1
                    /\ hookPc' = "sleep"
                    /\ UNCHANGED hookErr
               ELSE /\ hookPc' = "raised"
                    /\ hookErr' = [NoErr EXCEPT !.type = "OSError"]
                    /\ UNCHANGED <<proc, spawned>>
    /\ UNCHANGED <<add_local_user, add_user_cmd, accounts, elapsed>>
    /\ UNCHANGED authVars

\* one second passes; time.sleep(5) returns when five have
Tick ==
    /\ proc.state # "none"
    /\ elapsed < MaxTime
    /\ hookPc = "sleep" => elapsed < SleepSeconds
    /\ elapsed' = elapsed + 1
    /\ UNCHANGED <<add_local_user, add_user_cmd, accounts, hookPc, hookUser, cmd,
                   proc, spawned, hookErr>>
    /\ UNCHANGED authVars

\* the child exits, at a time of its own choosing, with a status and with
\* what it wrote to the pipe; a zero status means the account now exists.
\* Nothing stores the status in p.returncode: the hook calls none of poll(),
\* wait() and communicate().
ProcExit(status, output) ==
    /\ proc.state = "running"
    /\ proc' = [proc EXCEPT !.state = "exited", !.status = status,
                            !.output = output, !.exited_while = hookPc]
    /\ accounts' = IF status = 0 THEN accounts \cup {hookUser} ELSE accounts
    /\ UNCHANGED <<add_local_user, add_user_cmd, hookPc, hookUser, cmd, elapsed,
                   spawned, hookErr>>
    /\ UNCHANGED authVars

\* lines 136-140: time.sleep(5) returns, p.returncode is tested, and the
\* hook raises RuntimeError with the output read from the pipe (read() waits
\* for the end of the output) or returns None
SleepReturn ==
    /\ hookPc = "sleep"
    /\ elapsed = SleepSeconds
    /\ IF Truthy(proc.returncode)
       THEN /\ proc.state = "exited"
            /\ hookPc' = "raised"
            /\ hookErr' = [type |-> "RuntimeError", name |-> hookUser,
                           output |-> proc.output]
       ELSE /\ hookPc' = "done"
            /\ UNCHANGED hookErr
    /\ UNCHANGED <<add_local_user, add_user_cmd, accounts, hookUser, cmd, proc,
                   elapsed, spawned>>
    /\ UNCHANGED authVars

HookNext ==
    \/ \E name \in HookUsers, started \in BOOLEAN : PreSpawnStart(name, started)
    \/ Tick
    \/ \E status \in ExitCodes, output \in Outputs : ProcExit(status, output)
    \/ SleepReturn

----------------------------------------------------------------------------
(* Specifications *)

\* the hook at rest
HookIdle ==
    /\ add_local_user = FALSE
    /\ add_user_cmd = <<>>
    /\ accounts = {}
    /\ hookPc = "idle"
    /\ hookUser = None
    /\ cmd = <<>>
    /\ proc = NoProc
    /\ elapsed = 0
    /\ spawned = 0
    /\ hookErr = NoErr

\* no authentication attempt
AuthIdle ==
    /\ allowed_groups = <<>>
    /\ dirMembers = [g \in GroupDNs |-> {}]
    /\ pc = [a \in Attempts |-> "idle"]
    /\ username = [a \in Attempts |-> None]
    /\ password = [a \in Attempts |-> None]
    /\ userdn = [a \in Attempts |-> None]
    /\ conn = [a \in Attempts |-> NoConn]
    /\ group_idx = [a \in Attempts |-> 0]
    /\ ops = [a \in Attempts |-> <<>>]
    /\ log = [a \in Attempts |-> <<>>]
    /\ result = [a \in Attempts |-> None]

\* one authentication attempt
Init == AuthInit /\ HookIdle
Next == AuthNext
Spec == Init /\ [][Next]_vars

\* concurrent authentication attempts
NextConc == ConcNext
SpecConc == Init /\ [][NextConc]_vars

\* the provisioning hook
InitHook == HookInit /\ AuthIdle
NextHook == HookNext
SpecHook == InitHook /\ [][NextHook]_vars

----------------------------------------------------------------------------
(* Properties of authenticate *)

\* the whole string is one [a-z] followed by [.a-z0-9_-] only
FullMatch(s) ==
    /\ Len(s) >= 1
    /\ s[1] \in Lower
    /\ \A j \in 2..Len(s) : s[j] \in UsernameClass

\* absent, empty or whitespace only
Blank(p) == p = None \/ \A j \in 1..Len(p) : p[j] \in Whitespace

Called(a) == pc[a] # "idle"
Rejected(a) == pc[a] = "done" /\ result[a] = None

\* the groups attempt a has searched, in the order of the searches
Searched(a) ==
    LET searches == SelectSeq(ops[a], LAMBDA o : o.op = "search")
    IN [i \in 1..Len(searches) |-> searches[i].target]

BindIssued(a) == \E i \in 1..Len(ops[a]) : ops[a][i].op = "bind"

\* the directory accepts the credential of attempt a
GoodCredential(a) == <<userdn[a], password[a]>> \in DirCreds

\* the directory lists the DN of attempt a in the group at position k
MemberAt(a, k) == userdn[a] \in dirMembers[allowed_groups[k]]

\* 1-based position of the first configured group that has the DN of attempt
\* a as a member, 0 when there is none
FirstMatch(a) ==
    IF \E k \in 1..Len(allowed_groups) : MemberAt(a, k)
    THEN CHOOSE k \in 1..Len(allowed_groups) :
            MemberAt(a, k) /\ \A j \in 1..(k - 1) : ~MemberAt(a, j)
    ELSE 0

\* C1: an attempt whose username is not matched in full by the pattern is
\* rejected and issues no directory operation (connect, bind, search).
C1_InvalidUsernameRejected ==
    \A a \in Attempts :
        (Called(a) /\ ~FullMatch(username[a])) =>
            /\ ops[a] = <<>>
            /\ pc[a] # "raised"
            /\ pc[a] = "done" => result[a] = None

\* C2: an attempt whose password is absent, empty or whitespace only is
\* rejected at once and issues no directory operation, whatever the username.
C2_BlankPasswordRejected ==
    \A a \in Attempts :
        (Called(a) /\ Blank(password[a])) => (Rejected(a) /\ ops[a] = <<>>)

C2_Witness ==
    \E a \in Attempts :
        /\ Rejected(a)
        /\ username[a] = river
        /\ password[a] = <<" ", "\t">>
        /\ log[a] = <<[text |-> "Empty password", args |-> <<>>]>>

\* C3: when the bind fails (wrong password) the attempt is rejected, with or
\* without authorized groups, and no group search is issued.
C3_BindFailureRejected ==
    \A a \in Attempts :
        (BindIssued(a) /\ ~GoodCredential(a)) =>
            (Rejected(a) /\ Searched(a) = <<>>)

C3_Witness ==
    \E a \in Attempts :
        /\ BindIssued(a) /\ ~GoodCredential(a)
        /\ username[a] = river
        /\ allowed_groups # <<>>
        /\ MemberAt(a, 1)
        /\ Rejected(a)
        /\ log[a] = <<[text |-> "Invalid password", args |-> <<>>]>>

\* C4: with a successful bind and a non-empty group list, the groups are
\* searched in configured order, each once, and never beyond the first group
\* that has the identity as a member; an attempt that returns with that group
\* at position k returns the username after the searches of groups 1..k.
C4_FirstMatchShortCircuit ==
    \A a \in Attempts :
        LET k == FirstMatch(a)
            n == Len(Searched(a))
        IN /\ n <= Len(allowed_groups)
           /\ Searched(a) = SubSeq(allowed_groups, 1, n)
           /\ k > 0 => n <= k
           /\ (pc[a] = "done" /\ GoodCredential(a) /\ k > 0) =>
                 /\ result[a] = username[a]
                 /\ Searched(a) = SubSeq(allowed_groups, 1, k)

\* the first of two groups matches, the second would match too and is not queried
C4_Witness ==
    \E a \in Attempts :
        /\ pc[a] = "done" /\ GoodCredential(a)
        /\ Len(allowed_groups) = 2
        /\ allowed_groups[1] # allowed_groups[2]
        /\ MemberAt(a, 1) /\ MemberAt(a, 2)
        /\ result[a] = river
        /\ Searched(a) = <<allowed_groups[1]>>

\* C5: with a successful bind, a non-empty group list and the identity in none
\* of the groups, an attempt that returns has searched the whole list and
\* returns the rejection verdict.
C5_NoGroupMatchRejected ==
    \A a \in Attempts :
        (pc[a] = "done" /\ GoodCredential(a) /\ allowed_groups # <<>>
            /\ FirstMatch(a) = 0) =>
            (result[a] = None /\ Searched(a) = allowed_groups)

C5_Witness ==
    \E a \in Attempts :
        /\ pc[a] = "done" /\ GoodCredential(a)
        /\ Len(allowed_groups) = 2
        /\ FirstMatch(a) = 0
        /\ result[a] = None
        /\ Searched(a) = allowed_groups

\* C6: with a matching username, a non-blank password, a successful bind and
\* no authorized groups, the attempt returns exactly the username it was
\* given, and no group search is issued.
C6_NoGroupsAccepts ==
    \A a \in Attempts :
        /\ allowed_groups = <<>> => Searched(a) = <<>>
        /\ (pc[a] = "done" /\ FullMatch(username[a]) /\ ~Blank(password[a])
               /\ GoodCredential(a) /\ allowed_groups = <<>>) =>
              result[a] = username[a]

C6_Witness ==
    \E a \in Attempts :
        /\ pc[a] = "done" /\ GoodCredential(a)
        /\ allowed_groups = <<>>
        /\ BindIssued(a)
        /\ result[a] = river

\* C7: authenticate never raises; every directory failure ends the attempt
\* with the rejection verdict.
C7_NeverRaises ==
    \A a \in Attempts : pc[a] # "raised"

----------------------------------------------------------------------------
(* Properties of pre_spawn_start *)

HookReturned == hookPc \in {"done", "raised"}
CommandStarted == proc.state # "none"

\* C8: when the creation command exits nonzero the hook fails with an error
\* carrying the command's output, and when it exits zero the hook returns
\* normally.  (Stated for a command that exits while the hook is waiting.)
C8_ExitStatusDecides ==
    (HookReturned /\ proc.state = "exited" /\ proc.exited_while = "sleep") =>
        IF proc.status # 0
        THEN /\ hookPc = "raised"
             /\ hookErr.type = "RuntimeError"
             /\ hookErr.output = proc.output
        ELSE hookPc = "done"

\* C9: once the hook has started the command it does not return before the
\* process has exited.
C9_ReturnAfterExit ==
    (HookReturned /\ CommandStarted) => proc.state = "exited"

\* position of the first occurrence of t in s, 0 when there is none
FirstOccurrence(s, t) ==
    IF Contains(s, t)
    THEN CHOOSE i \in 1..(Len(s) + 1) :
            StartsAt(s, i, t) /\ \A j \in 1..(i - 1) : ~StartsAt(s, j, t)
    ELSE 0

\* the pieces of s between the occurrences of the separator
RECURSIVE Pieces(_, _)
Pieces(s, sep) ==
    LET i == FirstOccurrence(s, sep)
    IN IF i = 0 THEN <<s>>
       ELSE <<SubSeq(s, 1, i - 1)>> \o Pieces(SubSeq(s, i + Len(sep), Len(s)), sep)

\* the pieces with u between them
RECURSIVE Joined(_, _)
Joined(pieces, u) ==
    IF Len(pieces) = 1 THEN pieces[1]
    ELSE pieces[1] \o u \o Joined(Tail(pieces), u)

\* C10: the argument list handed to the command is the template with
\* USERNAME replaced by the username in every element that contains it, the
\* other elements as they are and in the same order, and the username as one
\* more, final argument; ["adduser","-q","USERNAME"] and river give
\* ["adduser","-q","river","river"].
C10_CommandLine ==
    (CommandStarted \/ hookErr.type = "OSError") =>
        /\ Len(cmd) = Len(add_user_cmd) + 1
        /\ cmd[Len(cmd)] = hookUser
        /\ \A i \in 1..Len(add_user_cmd) :
              IF Contains(add_user_cmd[i], USERNAME)
              THEN cmd[i] = Joined(Pieces(add_user_cmd[i], USERNAME), hookUser)
              ELSE cmd[i] = add_user_cmd[i]
        /\ (add_user_cmd = <<adduser, <<"-","q">>, USERNAME>> /\ hookUser = river) =>
              cmd = <<adduser, <<"-","q">>, river, river>>

C10_Witness ==
    /\ CommandStarted
    /\ add_user_cmd = <<adduser, <<"-","q">>, USERNAME>>
    /\ hookUser = river
    /\ cmd = <<adduser, <<"-","q">>, river, river>>

\* C11: a hook called with provisioning disabled, or for a name that already
\* has an account, returns normally at once, starts no command and leaves the
\* accounts as they are (a missing account stays missing); no hook invocation
\* starts more than one command.
C11_NoCommandWhenNotNeeded ==
    /\ [](spawned <= 1)
    /\ [][ (hookPc = "idle" /\ hookPc' # "idle"
              /\ (~add_local_user \/ hookUser' \in accounts)) =>
           (hookPc' = "done" /\ spawned' = 0 /\ proc' = NoProc /\ cmd' = <<>>
              /\ accounts' = accounts) ]_vars

\* provisioning disabled, the account missing and left missing
C11_Witness ==
    /\ hookPc = "done"
    /\ ~add_local_user
    /\ hookUser = river
    /\ river \notin accounts
    /\ spawned = 0

RiverDN ==
    <<"u","i","d","=","r","i","v","e","r",",",
      "o","u","=","p","e","o","p","l","e",",",
      "d","c","=","e","x","a","m","p","l","e",",","d","c","=","o","r","g">>

\* the text of the template before and after its {username} field
DNPrefix == <<"u","i","d","=">>
DNSuffix == SubSeq(RiverDN, 10, Len(RiverDN))

\* C12: the DN of an attempt is the template with {username} replaced by the
\* username as it was given (river gives uid=river,ou=people,dc=example,dc=org);
\* that DN is the identity of the bind and the value of the member filter of
\* every group search of the attempt.
C12_DistinguishedName ==
    \A a \in Attempts :
        LET dn == DNPrefix \o username[a] \o DNSuffix
        IN /\ pc[a] \in {"bind", "search"} => userdn[a] = dn
           /\ \A i \in 1..Len(ops[a]) :
                 /\ ops[a][i].op = "bind" => ops[a][i].dn = dn
                 /\ ops[a][i].op = "search" =>
                       ops[a][i].arg = <<"(","m","e","m","b","e","r","=">> \o dn \o <<")">>
           /\ (username[a] = river /\ BindIssued(a)) => userdn[a] = RiverDN

C12_Witness ==
    \E a \in Attempts :
        /\ username[a] = river
        /\ \E i \in 1..Len(ops[a]) : ops[a][i].op = "bind" /\ ops[a][i].dn = RiverDN
        /\ \E i \in 1..Len(ops[a]) :
              /\ ops[a][i].op = "search"
              /\ ops[a][i].arg = <<"(","m","e","m","b","e","r","=">> \o RiverDN \o <<")">>

\* the requests attempt a has made: kind and addressee
Requests(a) == [i \in 1..Len(ops[a]) |-> <<ops[a][i].op, ops[a][i].target>>]

IsPrefix(s, t) == Len(s) <= Len(t) /\ s = SubSeq(t, 1, Len(s))

\* C13: however the steps of several attempts interleave, an attempt makes
\* the requests it would make alone with the same credential, on its own
\* connection, built from its own credential, and when it returns it returns
\* the verdict it would return alone; no step changes the configuration.
C13_AttemptsIndependent ==
    /\ [](\A a \in Attempts :
            LET alone == AloneRun(username[a], password[a],
                                  allowed_groups, dirMembers)
            IN /\ Called(a) => IsPrefix(Requests(a), alone.requests)
               /\ pc[a] = "done" =>
                     /\ Requests(a) = alone.requests
                     /\ result[a] = alone.verdict
               /\ \A i \in 1..Len(ops[a]) : ops[a][i].via = a
               /\ conn[a].state # "none" =>
                     (conn[a].user = userdn[a] /\ conn[a].password = password[a]))
    /\ [][allowed_groups' = allowed_groups]_vars

\* one attempt accepted after a group search while another, with a different
\* password, is between its bind and its return
C13_Witness ==
    \E a, b \in Attempts :
        /\ a # b
        /\ pc[a] = "done" /\ result[a] = river /\ Searched(a) # <<>>
        /\ pc[b] = "bind" /\ username[b] = river /\ password[b] # password[a]
        /\ conn[b].password = password[b]

\* C14: when an attempt has ended, by a return or by an exception, the
\* connection it opened is closed.
C14_ConnectionClosedAtReturn ==
    \A a \in Attempts :
        pc[a] \in {"done", "raised"} => conn[a].state \in {"none", "closed"}

\* the number of requests of one kind attempt a has made
Count(a, kind) == Len(SelectSeq(ops[a], LAMBDA o : o.op = kind))

HasSecret(a) == Called(a) /\ password[a] # None /\ password[a] # <<>>

\* C16: the password of an attempt goes to the bind request and nowhere else:
\* no log record carries it, no connect or search request carries it or has
\* it in its filter, the value returned is not it, and the configuration is
\* what it was.
C16_PasswordOnlyToBind ==
    /\ [](\A a \in Attempts :
            HasSecret(a) =>
               /\ \A i \in 1..Len(log[a]) :
                     \A j \in 1..Len(log[a][i].args) : log[a][i].args[j] # password[a]
               /\ \A i \in 1..Len(ops[a]) :
                     ops[a][i].op # "bind" =>
                        /\ ops[a][i].arg # password[a]
                        /\ ops[a][i].dn # password[a]
                        /\ ~Contains(ops[a][i].arg, password[a])
               /\ \A i \in 1..Len(ops[a]) :
                     ops[a][i].op = "bind" => ops[a][i].arg = password[a]
               /\ result[a] # password[a])
    /\ [][allowed_groups' = allowed_groups /\ dirMembers' = dirMembers]_vars

\* a wrong password: bound with, warned about, and not in the warning
C16_Witness ==
    \E a \in Attempts :
        /\ HasSecret(a)
        /\ pc[a] = "done"
        /\ Count(a, "bind") = 1
        /\ Len(log[a]) = 1 /\ log[a][1].text = "Invalid password"

\* C17: a value other than None is returned only to an attempt whose bind the
\* directory accepted and, when groups are configured, whose last search was
\* of a group that has its DN as a member; the value is the username given.
C17_SuccessIsSound ==
    \A a \in Attempts :
        (pc[a] = "done" /\ result[a] # None) =>
            /\ result[a] = username[a]
            /\ \E i \in 1..Len(ops[a]) :
                  /\ ops[a][i].op = "bind"
                  /\ <<ops[a][i].dn, ops[a][i].arg>> \in DirCreds
            /\ \/ allowed_groups = <<>>
               \/ LET last == ops[a][Len(ops[a])]
                  IN /\ last.op = "search"
                     /\ \E k \in 1..Len(allowed_groups) : allowed_groups[k] = last.target
                     /\ userdn[a] \in dirMembers[last.target]

\* accepted through the second of two groups
C17_Witness ==
    \E a \in Attempts :
        /\ pc[a] = "done" /\ result[a] = river
        /\ Len(allowed_groups) = 2
        /\ Searched(a) = allowed_groups
        /\ ~MemberAt(a, 1) /\ MemberAt(a, 2)

\* what the check of line 93 lets through: a full match, or a full match
\* followed by one newline
PassesUsernameCheck(u) ==
    \/ FullMatch(u)
    \/ /\ Len(u) >= 2
       /\ u[Len(u)] = "\n"
       /\ FullMatch(SubSeq(u, 1, Len(u) - 1))

\* C18: within an attempt no connect or bind is made unless the username
\* check and the password check have both passed, and every search comes
\* after a bind of the same attempt, on the same connection, that the
\* directory accepted.
C18_OperationOrder ==
    \A a \in Attempts :
        /\ ops[a] # <<>> => (PassesUsernameCheck(username[a]) /\ ~Blank(password[a]))
        /\ \A i \in 1..Len(ops[a]) :
              ops[a][i].op = "search" =>
                 \E j \in 1..(i - 1) :
                    /\ ops[a][j].op = "bind"
                    /\ ops[a][j].via = ops[a][i].via
                    /\ <<ops[a][j].dn, ops[a][j].arg>> \in DirCreds

C18_Witness ==
    \E a \in Attempts :
        /\ Len(ops[a]) = 4
        /\ ops[a][2].op = "bind"
        /\ ops[a][3].op = "search" /\ ops[a][4].op = "search"
        /\ ops[a][4].via = ops[a][2].via

====
